---- MODULE Spec2Model ----
(***************************************************************************)
(* A model of pytod's ECOD detector (src/pytod/models/ecod.py): one ECOD   *)
(* instance, its attributes, and the calls fit and decision_function.      *)
(*                                                                         *)
(* Numbers.  A tail probability is kept as the fraction <<k, n>> (k of the *)
(* n reference values are <= the value).  Logarithms are fixed-point: the  *)
(* natural logarithm in units of 10^-6, read from LnTable, so that         *)
(* log(<<k, n>>) = Ln(k) - Ln(n).  log(0) is -inf.                         *)
(***************************************************************************)
EXTENDS Integers, Sequences, FiniteSets, TLC

VARIABLES
    self,    \* the instance's attributes: attribute name -> value (hasattr = \in DOMAIN)
    pc,      \* "idle" | "fit_returned" | "fit_raised" | "df_returned"
    frame,   \* the local variables of the call that has just run (<< >> when idle)
    ret,     \* what that call returned or raised
    X_fit    \* history: the argument of the last fit that computed scores (not an attribute)

vars == <<self, pc, frame, ret, X_fit>>

----------------------------------------------------------------------------
(* Inputs *)

MaxRows == 3

Values == {0, 1}

FeatureCounts == {0, 1, 2}

Matrix(n, d, v) == [rows |-> n, cols |-> d, v |-> v]

Matrices ==
    UNION { { Matrix(n, d, m) : m \in [1..n -> [1..d -> Values]] } :
            n \in 0..MaxRows, d \in FeatureCounts }

\* spec.md section 8, "Concrete scenario": [[0],[1],...,[9]]
ScenarioX == Matrix(10, 1, [i \in 1..10 |-> <<i - 1>>])

TrainSets == Matrices \cup {ScenarioX}

Queries == Matrices \cup {ScenarioX}

\* contamination in percent: the instance is built as ECOD(contamination=0.2),
\* the value of spec.md's concrete scenario
Contaminations == {20}

----------------------------------------------------------------------------
(* Numeric helpers *)

LnTable ==
    << 0, 693147, 1098612, 1386294, 1609438, 1791759, 1945910, 2079442,
       2197225, 2302585, 2397895, 2484907, 2564949, 2639057, 2708050,
       2772589, 2833213, 2890372, 2944439, 2995732, 3044522, 3091042 >>

Ln(k) == LnTable[k]

inf == 1000000000

\* torch.log of the fraction u = <<k, n>>
log(u) == IF u[1] = 0 THEN -inf ELSE Ln(u[1]) - Ln(u[2])

\* a materialised array: the sequence of f's elements
array(f) == f \o << >>

RECURSIVE SumSeq(_)
SumSeq(s) == IF s = << >> THEN 0 ELSE Head(s) + SumSeq(Tail(s))

\* -X
Neg(X) == Matrix(X.rows, X.cols,
                 array([i \in 1..X.rows |-> array([f \in 1..X.cols |-> -X.v[i][f]])]))

----------------------------------------------------------------------------
(* basic_operators.ecdf_multiple, after spec.md section 4.1:               *)
(* P[i] = |{r in R : r <= Q[i]}| / n_ref, per feature                      *)

EmpiricalCDF(R, Q) ==
    array([i \in 1..Q.rows |->
        array([f \in 1..Q.cols |->
            << Cardinality({r \in 1..R.rows : R.v[r][f] <= Q.v[i][f]}), R.rows >>])])

ecdf_multiple(X) == EmpiricalCDF(X, X)

----------------------------------------------------------------------------
(* ECOD.fit, lines 81-95 *)

\* faulty variants of neg_log: the negation forgotten; log1p in place of log
neg_log_unnegated(U) ==
    array([i \in DOMAIN U |-> array([f \in DOMAIN U[i] |-> log(U[i][f])])])

neg_log_log1p(U) ==
    array([i \in DOMAIN U |->
        array([f \in DOMAIN U[i] |->
            (-1) * (Ln(U[i][f][1] + U[i][f][2]) - Ln(U[i][f][2]))])])

\* -1 * torch.log(U)
neg_log(U) ==
    array([i \in DOMAIN U |-> array([f \in DOMAIN U[i] |-> (-1) * log(U[i][f])])])

\* faulty variant of maximum: torch.minimum
maximum_as_minimum(A, B) ==
    array([i \in DOMAIN A |->
        array([f \in DOMAIN A[i] |->
            IF A[i][f] <= B[i][f] THEN A[i][f] ELSE B[i][f]])])

\* torch.maximum(A, B)
maximum(A, B) ==
    array([i \in DOMAIN A |->
        array([f \in DOMAIN A[i] |->
            IF A[i][f] >= B[i][f] THEN A[i][f] ELSE B[i][f]])])

\* torch.sum(O, dim=1).cpu().numpy() * -1
aggregate(O) == array([i \in DOMAIN O |-> SumSeq(O[i]) * (-1)])

\* faulty variant of fit_scores: the training matrix is kept as X_train
fit_scores_keeping_X(X) ==
    LET U_l == neg_log(ecdf_multiple(X))
        U_r == neg_log(ecdf_multiple(Neg(X)))
        O   == maximum(U_l, U_r)
    IN  [U_l |-> U_l, U_r |-> U_r, O |-> O, decision_scores_ |-> aggregate(O),
         X_train |-> X]

\* the attributes lines 82-95 write
fit_scores(X) ==
    LET U_l == neg_log(ecdf_multiple(X))
        U_r == neg_log(ecdf_multiple(Neg(X)))
        O   == maximum(U_l, U_r)
    IN  [U_l |-> U_l, U_r |-> U_r, O |-> O, decision_scores_ |-> aggregate(O)]

----------------------------------------------------------------------------
(* BaseDetector, after the class docstring (lines 36-44) and spec.md       *)
(* sections 1 and 6                                                        *)

\* round(n * contamination)
n_outliers(n, contamination) == (n * contamination + 50) \div 100

\* threshold_: the largest score outside the n * contamination most abnormal
\* (highest) ones; labels_: threshold_ applied on decision_scores_
process_decision_scores(scores, contamination) ==
    LET n      == Len(scores)
        sorted == SortSeq(scores, <)
        thr    == sorted[n - n_outliers(n, contamination)]
    IN  [threshold_ |-> thr,
         labels_    |-> array([i \in 1..n |-> IF scores[i] > thr THEN 1 ELSE 0])]

\* _set_n_classes(y) with y = None
set_n_classes == ("_classes" :> 2)

----------------------------------------------------------------------------
(* State machine *)

Init ==
    /\ \E c \in Contaminations :
          self = [contamination |-> c, n_neighbors |-> 5, device |-> "cuda:0"]
    /\ pc = "idle"
    /\ frame = << >>
    /\ ret = [kind |-> "none"]
    /\ X_fit = << >>

\* ECOD.fit(X, y=None, return_time)
fit(X, return_time) ==
    /\ pc = "idle"
    /\ frame' = [X |-> X, return_time |-> return_time]
    /\ X_fit' = X
    /\ LET scored == fit_scores(X) @@ set_n_classes @@ self
           timed  == self.device # "cpu" /\ return_time
       IN  IF X.rows = 0
           THEN \* the percentile of an empty score vector: raises, or is nan
                \/ /\ self' = scored
                   /\ pc' = "fit_raised"
                   /\ ret' = [kind |-> "raise", exc |-> "IndexError"]
                \/ /\ self' = (IF timed THEN [gpu_time |-> "elapsed"] ELSE << >>)
                              @@ [threshold_ |-> "nan", labels_ |-> << >>] @@ scored
                   /\ pc' = "fit_returned"
                   /\ ret' = [kind |-> "self"]
           ELSE /\ self' = (IF timed THEN [gpu_time |-> "elapsed"] ELSE << >>)
                           @@ process_decision_scores(scored.decision_scores_,
                                                      self.contamination)
                           @@ scored
                /\ pc' = "fit_returned"
                /\ ret' = [kind |-> "self"]

\* faulty variant of decision_function: the query is stored on the model
decision_function_storing_X(X) ==
    /\ pc = "idle"
    /\ frame' = [X |-> X]
    /\ self' = [X_train |-> X] @@ self
    /\ ret' = [kind |-> "None"]
    /\ pc' = "df_returned"
    /\ UNCHANGED X_fit

\* ECOD.decision_function(X): lines 118-122; the body ends without a return
decision_function(X) ==
    /\ pc = "idle"
    /\ frame' = IF "X_train" \in DOMAIN self
                THEN [original_size |-> X.rows,
                      X |-> Matrix(self.X_train.rows + X.rows, X.cols,
                                   self.X_train.v \o X.v)]
                ELSE [X |-> X]
    /\ ret' = [kind |-> "None"]
    /\ pc' = "df_returned"
    /\ UNCHANGED <<self, X_fit>>

\* the caller takes the result; the call's locals are gone
Return ==
    /\ pc # "idle"
    /\ pc' = "idle"
    /\ frame' = << >>
    /\ ret' = [kind |-> "none"]
    /\ UNCHANGED <<self, X_fit>>

Next ==
    \/ \E X \in TrainSets, return_time \in BOOLEAN : fit(X, return_time)
    \/ \E X \in Queries : decision_function(X)
    \/ Return

Spec == Init /\ [][Next]_vars

----------------------------------------------------------------------------
(* Query scoring as spec.md section 4.5 describes it (the source's         *)
(* decision_function holds no scoring code): the fit pipeline, evaluated   *)
(* against the frozen reference R                                          *)

query_extremity(R, Q) ==
    maximum(neg_log(EmpiricalCDF(R, Q)), neg_log(EmpiricalCDF(Neg(R), Neg(Q))))

query_scores(R, Q) == aggregate(query_extremity(R, Q))

----------------------------------------------------------------------------
(* Vocabulary of the properties *)

\* fit has just returned normally; frame.X is the matrix it was given
FitReturned == pc = "fit_returned"

\* the matrix satisfies spec.md section 4.4's shape requirement
ValidShape(X) == X.rows >= 2 /\ X.cols >= 1

Rows(X) == 1..X.rows

Features(X) == 1..X.cols

Column(X, f) == [i \in Rows(X) |-> X.v[i][f]]

ConstantFeature(X, f) == \A i \in Rows(X) : X.v[i][f] = X.v[1][f]

\* X without feature f
DropFeature(X, f) ==
    Matrix(X.rows, X.cols - 1,
           [i \in Rows(X) |->
               [g \in 1..(X.cols - 1) |-> IF g < f THEN X.v[i][g] ELSE X.v[i][g + 1]]])

\* twice the median of a nonempty column (numpy.median: the mean of the two
\* middle values when the length is even)
Median2(col) ==
    LET s == SortSeq(col, <)
        n == Len(col)
    IN  IF n % 2 = 1 THEN 2 * s[(n + 1) \div 2] ELSE s[n \div 2] + s[n \div 2 + 1]

Abs(a) == IF a >= 0 THEN a ELSE -a

\* x and y lie on the same side of the median m2 / 2 (the median itself is on both)
SameSide(x, y, m2) == (2 * x >= m2 /\ 2 * y >= m2) \/ (2 * x <= m2 /\ 2 * y <= m2)

StrictlySameSide(x, y, m2) == (2 * x > m2 /\ 2 * y > m2) \/ (2 * x < m2 /\ 2 * y < m2)

\* y is farther from the median than x
Farther(y, x, m2) == Abs(2 * y - m2) > Abs(2 * x - m2)

----------------------------------------------------------------------------
(* C1: after fit(X), a training row whose summed per-feature extremity     *)
(* sum_f O[i,f] is strictly greater than another row's has the strictly    *)
(* greater decision_scores_ entry ("the higher, the more abnormal").       *)
C1_HigherScoreMoreAbnormal ==
    (FitReturned /\ ValidShape(frame.X)) =>
        \A i, j \in Rows(frame.X) :
            SumSeq(self.O[i]) > SumSeq(self.O[j])
                => self.decision_scores_[i] > self.decision_scores_[j]

(* C2: for the scenario matrix [[0],...,[9]] with contamination 0.2, the   *)
(* rows holding 0 and 9 have the two highest decision_scores_ entries and  *)
(* are exactly the rows labelled 1.                                        *)
C2_ScenarioExtremesLabelled ==
    (FitReturned /\ frame.X = ScenarioX /\ self.contamination = 20) =>
        /\ \A i \in 2..9 :
              /\ self.decision_scores_[1] > self.decision_scores_[i]
              /\ self.decision_scores_[10] > self.decision_scores_[i]
        /\ \A i \in 1..10 : self.labels_[i] = 1 <=> i \in {1, 10}

(* C3: on a fitted model, decision_function(Y) returns a score vector with *)
(* one entry per row of Y, the k-th entry being the score of Y's k-th row. *)
C3_OneScorePerQueryRow ==
    (/\ pc = "df_returned"
     /\ "threshold_" \in DOMAIN self
     /\ ValidShape(X_fit)
     /\ frame.X.cols = X_fit.cols) =>
        /\ ret.kind = "array"
        /\ Len(ret.value) = frame.X.rows
        /\ \A k \in Rows(frame.X) : ret.value[k] = query_scores(X_fit, frame.X)[k]

(* C4: after fit(X), decision_function(X) on the same matrix returns the   *)
(* cached training scores decision_scores_, entry by entry.                *)
C4_TrainingScoresReproduced ==
    (/\ pc = "df_returned"
     /\ "threshold_" \in DOMAIN self
     /\ ValidShape(X_fit)
     /\ frame.X = X_fit) =>
        /\ ret.kind = "array"
        /\ ret.value = self.decision_scores_

(* C5: a decision_function call leaves every attribute of the model as it  *)
(* was and adds none (so after any number of calls following a fit the     *)
(* attributes are those fit left).                                         *)
C5_DecisionFunctionKeepsModel ==
    [][pc' = "df_returned" => self' = self]_vars

\* a query has been scored on a model fitted on a valid matrix
C5_Witness ==
    /\ pc = "df_returned"
    /\ "threshold_" \in DOMAIN self
    /\ ValidShape(X_fit)
    /\ frame.X.rows >= 1

(* C6: fit(X) with fewer than 2 rows or fewer than 1 column fails with     *)
(* InvalidInputError and leaves no training scores on the model.  (Stated  *)
(* for matrices with at least one row: their fit does not depend on what   *)
(* the percentile of an empty score vector does.)                          *)
C6_InvalidShapeRejected ==
    (/\ pc \in {"fit_returned", "fit_raised"}
     /\ ~ValidShape(frame.X)
     /\ frame.X.rows >= 1) =>
        /\ ret.kind = "raise"
        /\ ret.exc = "InvalidInputError"
        /\ "decision_scores_" \notin DOMAIN self

C8_TailProbabilitiesPositive ==
    FitReturned =>
        \A i \in Rows(frame.X), f \in Features(frame.X) :
            LET u_l == ecdf_multiple(frame.X)[i][f]
                u_r == ecdf_multiple(Neg(frame.X))[i][f]
            IN  /\ u_l[2] = frame.X.rows /\ 1 <= u_l[1] /\ u_l[1] <= u_l[2]
                /\ u_r[2] = frame.X.rows /\ 1 <= u_r[1] /\ u_r[1] <= u_r[2]
                /\ self.U_l[i][f] = Ln(u_l[2]) - Ln(u_l[1])
                /\ self.U_r[i][f] = Ln(u_r[2]) - Ln(u_r[1])
                /\ self.O[i][f] \in {self.U_l[i][f], self.U_r[i][f]}
                /\ self.O[i][f] >= self.U_l[i][f]
                /\ self.O[i][f] >= self.U_r[i][f]
                /\ 0 <= self.O[i][f]
                /\ self.O[i][f] < inf

\* a training value with the least tail probability, 1/n, and extremity ln n
C8_Witness ==
    /\ FitReturned
    /\ ValidShape(frame.X)
    /\ \E i \in Rows(frame.X), f \in Features(frame.X) :
          /\ ecdf_multiple(frame.X)[i][f] = <<1, frame.X.rows>>
          /\ self.O[i][f] = Ln(frame.X.rows)
          /\ self.O[i][f] > 0

(* C9: within one feature, of two training values on the same side of the  *)
(* column's median the one farther from the median has the greater or      *)
(* equal extremity O.                                                      *)
C9_ExtremityMonotone ==
    (FitReturned /\ frame.X.rows >= 1) =>
        \A f \in Features(frame.X) :
            LET m2 == Median2(Column(frame.X, f))
            IN  \A i, j \in Rows(frame.X) :
                    (/\ SameSide(frame.X.v[i][f], frame.X.v[j][f], m2)
                     /\ Farther(frame.X.v[j][f], frame.X.v[i][f], m2))
                        => self.O[j][f] >= self.O[i][f]

\* two values strictly on one side of the median, the farther strictly more extreme
C9_Witness ==
    /\ FitReturned
    /\ frame.X.rows >= 1
    /\ \E f \in Features(frame.X) :
          LET m2 == Median2(Column(frame.X, f))
          IN  \E i, j \in Rows(frame.X) :
                  /\ StrictlySameSide(frame.X.v[i][f], frame.X.v[j][f], m2)
                  /\ Farther(frame.X.v[j][f], frame.X.v[i][f], m2)
                  /\ self.O[j][f] > self.O[i][f]

(* C10: the model never has an X_train attribute, so decision_function     *)
(* never takes the branch that concatenates stored training rows with the  *)
(* query (the branch is the only place that binds original_size).          *)
C10_NoStoredTrainingMatrix ==
    /\ "X_train" \notin DOMAIN self
    /\ "original_size" \notin DOMAIN frame

\* decision_function has run on a fitted model, past the hasattr test
C10_Witness ==
    /\ pc = "df_returned"
    /\ "decision_scores_" \in DOMAIN self
    /\ ValidShape(X_fit)
    /\ frame.X.rows >= 1
    /\ frame.X.cols = X_fit.cols

====
